---- MODULE Spec2Model ----
(***************************************************************************)
(* Model of ft5x06-register-tool.c: one invocation of main(), from the     *)
(* argument loop through open / I2C_SLAVE_FORCE / argument validation /    *)
(* the register read or write / close.  The bus driver is the environment: *)
(* open(), the bind ioctl and the I2C_RDWR ioctl each choose their result  *)
(* nondeterministically.  Every call made on the bus device is recorded in *)
(* `calls`, every LOG/ERR line in `log`.                                   *)
(***************************************************************************)
EXTENDS Integers, Sequences, FiniteSets, TLC

\* ------------------------------------------------------------------ bounds
\* Number of flag/value pairs on the command line.
MaxArgs == 3

\* ------------------------------------------------------- program constants
I2C_M_RD == 1
DefaultBus == 3
DefaultAddr == 56

\* ------------------------------------------------------------ input domains
\* Values strtol() can hand back for -r / -w / -v: below the 8-bit range, its
\* two ends, a documented register (ID_G_CTRL, 0x86) and one above the range.
RegVals == {-2, 0, 134, 255, 256}
\* Values given to -a and -b.
AddrVals == {57}
BusVals == {1}
\* Bytes the controller may answer with.
DevBytes == {0, 18, 255}
\* Contents an uninitialised rbuf may show when it is read.
UninitBytes == {0, 165}
\* Descriptors open() may return; negative is failure.
OpenResults == {-1, 3}
\* Results of ioctl(I2C_SLAVE_FORCE).
BindResults == {-1, 0}

\* One command-line option with its value; "h" stands for -h, --help and any
\* unrecognised word, all of which take the final else branch of the loop.
ArgSet ==
    [flag : {"a"}, val : AddrVals] \cup [flag : {"b"}, val : BusVals]
    \cup [flag : {"r", "w", "v"}, val : RegVals] \cup [flag : {"h"}, val : {0}]

RECURSIVE SeqsUpTo(_, _)
SeqsUpTo(S, n) ==
    IF n = 0 THEN {<<>>}
    ELSE LET shorter == SeqsUpTo(S, n - 1)
         IN shorter \cup {Append(s, x) : s \in {t \in shorter : Len(t) = n - 1}, x \in S}

\* ------------------------------------------------------------- conversions
\* Assignment of an int to a uint8_t.
U8(x) == x % 256

\* The status the parent sees for `return r` from main / exit(r).
ExitStatus(r) == r % 256

\* The digits of a non-negative number in base 16, most significant first.
RECURSIVE HexDigits(_)
HexDigits(n) == IF n < 16 THEN <<n>> ELSE Append(HexDigits(n \div 16), n % 16)

\* Exactly four hex digits of a 16-bit half word.
Hex4(h) == <<(h \div 4096) % 16, (h \div 256) % 16, (h \div 16) % 16, h % 16>>

\* printf("%02x") of an int: the value taken as unsigned 32 bit (a negative
\* int shows its two's complement, eight digits), at least two digits, zero
\* padded.
Fmt02x(x) ==
    IF x < 0 THEN Hex4((x \div 65536) % 65536) \o Hex4(x % 65536)
    ELSE LET d == HexDigits(x) IN IF Len(d) < 2 THEN <<0>> \o d ELSE d

\* Reading a rendered hex field back as a number.
RECURSIVE HexValue(_)
HexValue(d) == IF d = <<>> THEN 0 ELSE HexValue(SubSeq(d, 1, Len(d) - 1)) * 16 + d[Len(d)]

\* ------------------------------------------------------------------ state
VARIABLES
    pc,          \* position in main: parse, bind, validate, operate, end, exited
    argv,        \* options not yet consumed by the parse loop
    ts,          \* struct ft5x06_ts: fd, bus, addr
    readaddr, writeaddr, writevalue,
    wbuf, rbuf,  \* one-byte buffers of main: <<>> while uninitialised
    ret,         \* main's ret: <<>> while uninitialised
    calls,       \* calls made on the bus device, in order
    log,         \* lines written by LOG / ERR / show_help, in order
    status       \* exit status once pc = "exited", -1 before

vars == <<pc, argv, ts, readaddr, writeaddr, writevalue, wbuf, rbuf, ret, calls, log, status>>

\* A call on the bus device.  arg: the bus number (open), the target address
\* (bind), the descriptor (rdwr, close).  data: bytes the driver stored in the
\* read buffer.
Call(call, fn, arg, msgs, res, data) ==
    [call |-> call, fn |-> fn, arg |-> arg, msgs |-> msgs, res |-> res, data |-> data]

\* struct i2c_msg { addr, flags, len, buf }.
Msg(addr, flags, len, buf) == [addr |-> addr, flags |-> flags, len |-> len, buf |-> buf]

Line(stream, fn, fmt, fields) == [stream |-> stream, fn |-> fn, fmt |-> fmt, fields |-> fields]

\* The locals of main as declared, for a command line drawn from cmdlines.
Start(cmdlines) ==
    /\ pc = "parse"
    /\ argv \in cmdlines
    /\ ts = [fd |-> -1, bus |-> DefaultBus, addr |-> DefaultAddr]
    /\ readaddr = -1
    /\ writeaddr = -1
    /\ writevalue = -1
    /\ wbuf = <<>>
    /\ rbuf = <<>>
    /\ ret = <<>>
    /\ calls = <<>>
    /\ log = <<>>
    /\ status = -1

\* Every command line of up to MaxArgs options.
Init == Start(SeqsUpTo(ArgSet, MaxArgs))

\* The command lines "", "-r a" and "-w a -v v" for every a and v in 0..255:
\* the register operations over the whole 8-bit range.
ByteCmdlines ==
    {<<>>}
    \cup {<<[flag |-> "r", val |-> a]>> : a \in 0..255}
    \cup {<<[flag |-> "w", val |-> a], [flag |-> "v", val |-> v]>> : a \in 0..255, v \in 0..255}
    \cup {<<[flag |-> "a", val |-> a], [flag |-> "b", val |-> b], [flag |-> "h", val |-> 0]>> :
            a \in AddrVals, b \in BusVals}

InitBytes == Start(ByteCmdlines)

\* ------------------------------------------------------------ parse loop
ParseArg ==
    /\ pc = "parse"
    /\ argv # <<>>
    /\ LET a == Head(argv) IN
        /\ argv' = Tail(argv)
        /\ ts' = IF a.flag = "a" THEN [ts EXCEPT !.addr = U8(a.val)]
                 ELSE IF a.flag = "b" THEN [ts EXCEPT !.bus = U8(a.val)]
                 ELSE ts
        /\ readaddr' = IF a.flag = "r" THEN a.val ELSE readaddr
        /\ writeaddr' = IF a.flag = "w" THEN a.val ELSE writeaddr
        /\ writevalue' = IF a.flag = "v" THEN a.val ELSE writevalue
        /\ IF a.flag = "h"
           THEN /\ log' = Append(log, Line("stdout", "show_help", "usage", <<>>))
                /\ status' = ExitStatus(1)
                /\ pc' = "exited"
           ELSE UNCHANGED <<log, status, pc>>
    /\ UNCHANGED <<wbuf, rbuf, ret, calls>>

\* ------------------------------------------------------------------ open
\* Open without the test of the descriptor.
Open_unchecked ==
    /\ pc = "parse"
    /\ argv = <<>>
    /\ \E fd \in OpenResults :
        /\ ts' = [ts EXCEPT !.fd = fd]
        /\ calls' = Append(calls, Call("open", "main", ts.bus, <<>>, fd, <<>>))
        /\ pc' = "bind"
    /\ UNCHANGED <<argv, readaddr, writeaddr, writevalue, wbuf, rbuf, ret, log, status>>

Open ==
    /\ pc = "parse"
    /\ argv = <<>>
    /\ \E fd \in OpenResults :
        /\ ts' = [ts EXCEPT !.fd = fd]
        /\ calls' = Append(calls, Call("open", "main", ts.bus, <<>>, fd, <<>>))
        /\ IF fd < 0
           THEN /\ log' = Append(log, Line("stdout", "main", "Couldn't open", <<>>))
                /\ status' = ExitStatus(fd)
                /\ pc' = "exited"
           ELSE /\ pc' = "bind"
                /\ UNCHANGED <<log, status>>
    /\ UNCHANGED <<argv, readaddr, writeaddr, writevalue, wbuf, rbuf, ret>>

\* ------------------------------------------------------------------ bind
Bind ==
    /\ pc = "bind"
    /\ \E r \in BindResults :
        /\ ret' = <<r>>
        /\ calls' = Append(calls, Call("bind", "main", ts.addr, <<>>, r, <<>>))
        /\ IF r # 0
           THEN /\ log' = Append(log, Line("stdout", "main", "Couldn't set slave addr", <<>>))
                /\ status' = ExitStatus(-1)
                /\ pc' = "exited"
           ELSE /\ pc' = "validate"
                /\ UNCHANGED <<log, status>>
    /\ UNCHANGED <<argv, ts, readaddr, writeaddr, writevalue, wbuf, rbuf>>

\* ------------------------------------------------------------- validation
\* The first test with > for >=.
BothGiven_strict(ra, wa) == wa > 0 /\ ra > 0

BothGiven(ra, wa) == wa >= 0 /\ ra >= 0

NoWriteAddr(wa, wv) == wa <= 0 /\ wv >= 0

\* The third test as a copy of the second.
NoWriteValue_copied(wa, wv) == wa <= 0 /\ wv >= 0

NoWriteValue(wa, wv) == wa >= 0 /\ wv <= 0

Validate ==
    /\ pc = "validate"
    /\ IF BothGiven(readaddr, writeaddr)
       THEN /\ log' = Append(log, Line("stdout", "main", "Received both read and write", <<>>))
            /\ pc' = "end"
       ELSE IF NoWriteAddr(writeaddr, writevalue)
       THEN /\ log' = Append(log, Line("stdout", "main", "Didn't receive write address", <<>>))
            /\ pc' = "end"
       ELSE IF NoWriteValue(writeaddr, writevalue)
       THEN /\ log' = Append(log, Line("stdout", "main", "Didn't receive write value", <<>>))
            /\ pc' = "end"
       ELSE /\ pc' = "operate"
            /\ UNCHANGED log
    /\ UNCHANGED <<argv, ts, readaddr, writeaddr, writevalue, wbuf, rbuf, ret, calls, status>>

\* ------------------------------------------------------------ transport
\* Results of ioctl(I2C_RDWR): -1 on error, else the number of messages done.
RdwrResults(nmsgs) == {-1, nmsgs}

\* The ioctl issued again when it failed.
Submit_retry(cs, fn, fd, msgs, res, data) ==
    IF res < 0
    THEN Append(Append(cs, Call("rdwr", fn, fd, msgs, res, data)), Call("rdwr", fn, fd, msgs, res, data))
    ELSE Append(cs, Call("rdwr", fn, fd, msgs, res, data))

\* One ioctl(fd, I2C_RDWR, &data) issued from function fn.
Submit(cs, fn, fd, msgs, res, data) == Append(cs, Call("rdwr", fn, fd, msgs, res, data))

\* The test of wrlen off by one: a one-byte write is dropped.
ft5x06_i2c_read_msgs_offbyone(addr, wrbuf, wrlen, rdlen) ==
    IF wrlen > 1
    THEN <<Msg(addr, 0, wrlen, wrbuf), Msg(addr, I2C_M_RD, rdlen, <<>>)>>
    ELSE <<Msg(addr, I2C_M_RD, rdlen, <<>>)>>

\* The msgs[] array ft5x06_i2c_read hands to the driver.
ft5x06_i2c_read_msgs(addr, wrbuf, wrlen, rdlen) ==
    IF wrlen > 0
    THEN <<Msg(addr, 0, wrlen, wrbuf), Msg(addr, I2C_M_RD, rdlen, <<>>)>>
    ELSE <<Msg(addr, I2C_M_RD, rdlen, <<>>)>>

\* The msgs[] array ft5x06_i2c_write hands to the driver.
ft5x06_i2c_write_msgs(addr, buf, len) == <<Msg(addr, 0, len, buf)>>

\* The two bytes in the wrong order.
regnval_swapped(regnum, value) == <<U8(value), U8(regnum)>>

\* regnval[] of ft5x06_write_reg; its parameters are uint8_t.
regnval(regnum, value) == <<U8(regnum), U8(value)>>

\* "Error %d" on stderr when the transfer result is negative.
ErrLines(fn, res) ==
    IF res < 0 THEN <<Line("stderr", fn, "Error %d", <<res>>)>> ELSE <<>>

\* ft5x06_i2c_write on device t when the driver answers res: the calls and
\* the log it leaves behind.
ft5x06_i2c_write(cs, lg, t, buf, len, res) ==
    [calls |-> Submit(cs, "ft5x06_i2c_write", t.fd, ft5x06_i2c_write_msgs(t.addr, buf, len), res, <<>>),
     log |-> lg \o ErrLines("ft5x06_i2c_write", res)]

\* ft5x06_write_reg: one ft5x06_i2c_write of regnval, ARRAY_SIZE(regnval) long.
ft5x06_write_reg(cs, lg, t, regnum, value, res) ==
    ft5x06_i2c_write(cs, lg, t, regnval(regnum, value), Len(regnval(regnum, value)), res)

\* nmsgs of the single-message write.
WriteNmsgs == Len(ft5x06_i2c_write_msgs(0, <<>>, 0))

\* ------------------------------------------------- register read (main)
MainRead ==
    /\ pc = "operate"
    /\ readaddr >= 0
    /\ LET wb == <<U8(readaddr)>>
           msgs == ft5x06_i2c_read_msgs(ts.addr, wb, 1, 1)
       IN \E res \in RdwrResults(Len(msgs)), b \in DevBytes, u \in UninitBytes :
            LET stored == IF res >= 0 THEN <<b>> ELSE <<>>
                shown == IF stored # <<>> THEN stored[1] ELSE u
            IN /\ wbuf' = wb
               /\ rbuf' = stored
               /\ ret' = <<res>>
               /\ calls' = Submit(calls, "ft5x06_i2c_read", ts.fd, msgs, res, stored)
               /\ log' = log \o ErrLines("ft5x06_i2c_read", res)
                             \o <<Line("stdout", "main", "%02x", <<Fmt02x(shown)>>)>>
    /\ pc' = "end"
    /\ UNCHANGED <<argv, ts, readaddr, writeaddr, writevalue, status>>

\* ------------------------------------------------ register write (main)
MainWrite ==
    /\ pc = "operate"
    /\ readaddr < 0
    /\ writeaddr >= 0
    /\ \E res \in RdwrResults(WriteNmsgs) :
        LET done == ft5x06_write_reg(calls, log, ts, writeaddr, writevalue, res)
        IN /\ calls' = done.calls
           /\ log' = Append(done.log, Line("stdout", "main", "%02x = %02x",
                                           <<Fmt02x(writeaddr), Fmt02x(writevalue)>>))
    /\ pc' = "end"
    /\ UNCHANGED <<argv, ts, readaddr, writeaddr, writevalue, wbuf, rbuf, ret, status>>

\* Neither -r nor -w: nothing to do.
MainNoOp ==
    /\ pc = "operate"
    /\ readaddr < 0
    /\ writeaddr < 0
    /\ pc' = "end"
    /\ UNCHANGED <<argv, ts, readaddr, writeaddr, writevalue, wbuf, rbuf, ret, calls, log, status>>

\* ------------------------------------------------------------- end label
\* The end label without the close.
End_leak ==
    /\ pc = "end"
    /\ status' = ExitStatus(0)
    /\ pc' = "exited"
    /\ UNCHANGED <<argv, ts, readaddr, writeaddr, writevalue, wbuf, rbuf, ret, calls, log>>

\* The end label returning ret.
End_retstatus ==
    /\ pc = "end"
    /\ calls' = Append(calls, Call("close", "main", ts.fd, <<>>, 0, <<>>))
    /\ status' = ExitStatus(ret[1])
    /\ pc' = "exited"
    /\ UNCHANGED <<argv, ts, readaddr, writeaddr, writevalue, wbuf, rbuf, ret, log>>

End ==
    /\ pc = "end"
    /\ calls' = Append(calls, Call("close", "main", ts.fd, <<>>, 0, <<>>))
    /\ status' = ExitStatus(0)
    /\ pc' = "exited"
    /\ UNCHANGED <<argv, ts, readaddr, writeaddr, writevalue, wbuf, rbuf, ret, log>>

Next ==
    \/ ParseArg
    \/ Open
    \/ Bind
    \/ Validate
    \/ MainRead
    \/ MainWrite
    \/ MainNoOp
    \/ End

Spec == Init /\ [][Next]_vars

\* ------------------------------------------- ft5x06_write_reg on its own
\* ft5x06_write_reg called with any register and value in 0..255 on a device
\* that is open and bound; writeaddr and writevalue hold the two arguments.
InitWriteReg ==
    /\ pc = "unit"
    /\ argv = <<>>
    /\ ts = [fd |-> 3, bus |-> DefaultBus, addr |-> DefaultAddr]
    /\ readaddr = -1
    /\ writeaddr \in 0..255
    /\ writevalue \in 0..255
    /\ wbuf = <<>>
    /\ rbuf = <<>>
    /\ ret = <<0>>
    /\ calls = <<Call("open", "main", DefaultBus, <<>>, 3, <<>>),
                 Call("bind", "main", DefaultAddr, <<>>, 0, <<>>)>>
    /\ log = <<>>
    /\ status = -1

CallWriteReg ==
    /\ pc = "unit"
    /\ \E res \in RdwrResults(WriteNmsgs) :
        LET done == ft5x06_write_reg(calls, log, ts, writeaddr, writevalue, res)
        IN /\ calls' = done.calls
           /\ log' = done.log
    /\ pc' = "returned"
    /\ UNCHANGED <<argv, ts, readaddr, writeaddr, writevalue, wbuf, rbuf, ret, status>>

NextBytes ==
    \/ Next
    \/ CallWriteReg

\* main on the command lines of ByteCmdlines, and ft5x06_write_reg on its own.
InitBytesAll == InitBytes \/ InitWriteReg

SpecBytes == InitBytesAll /\ [][NextBytes]_vars

\* ============================================================ properties
InByte(x) == x \in 0..255

Rdwr == SelectSeq(calls, LAMBDA c : c.call = "rdwr")
TxCount == Len(Rdwr)
CloseCount == Len(SelectSeq(calls, LAMBDA c : c.call = "close"))

OpenOk == \E i \in DOMAIN calls : calls[i].call = "open" /\ calls[i].res >= 0
OpenFailed == \E i \in DOMAIN calls : calls[i].call = "open" /\ calls[i].res < 0
BindOk == \E i \in DOMAIN calls : calls[i].call = "bind" /\ calls[i].res = 0
BindFailed == \E i \in DOMAIN calls : calls[i].call = "bind" /\ calls[i].res # 0
Released == CloseCount > 0

\* The target address the handle was bound to.
BoundAddrs == {calls[i].arg : i \in {j \in DOMAIN calls : calls[j].call = "bind" /\ calls[j].res = 0}}

RejectFmts ==
    {"Received both read and write", "Didn't receive write address", "Didn't receive write value"}
Rejections == SelectSeq(log, LAMBDA l : l.fmt \in RejectFmts)

\* Validation has been passed or failed: main is at or beyond the read/write.
Validated == pc \in {"operate", "end", "exited"} /\ BindOk

\* ---------------------------------------------------------------------- C1
\* C1: a register read of address a in 0..255 submits exactly one bus
\* operation of exactly two messages, write(1 byte: [a]) then read(1 byte),
\* both to the bound target address, and when it succeeds the two hex digits
\* shown to the user are the byte the driver stored in the read buffer.
C1_ReadFraming ==
    \A i \in DOMAIN calls :
        (calls[i].fn = "ft5x06_i2c_read" /\ InByte(readaddr)) =>
            /\ TxCount = 1
            /\ \E t \in BoundAddrs :
                calls[i].msgs = <<Msg(t, 0, 1, <<readaddr>>), Msg(t, I2C_M_RD, 1, <<>>)>>
            /\ calls[i].res >= 0 =>
                /\ Len(calls[i].data) = 1
                /\ log[Len(log)].fmt = "%02x"
                /\ Len(log[Len(log)].fields[1]) = 2
                /\ HexValue(log[Len(log)].fields[1]) = calls[i].data[1]

C1_Witness ==
    /\ pc = "exited"
    /\ readaddr = 134
    /\ \E i \in DOMAIN calls :
        calls[i].fn = "ft5x06_i2c_read" /\ calls[i].res >= 0 /\ calls[i].data = <<18>>

\* ---------------------------------------------------------------------- C2
\* C2: a register write of value v in 0..255 to address a in 0..255 submits
\* exactly one bus operation of exactly one message, write(2 bytes: [a, v]),
\* to the bound target address; no message of it is a read and no further
\* operation follows it.
C2_WriteFraming ==
    \A i \in DOMAIN calls :
        (calls[i].fn = "ft5x06_i2c_write" /\ InByte(writeaddr) /\ InByte(writevalue)) =>
            /\ TxCount = 1
            /\ \E t \in BoundAddrs :
                calls[i].msgs = <<Msg(t, 0, 2, <<writeaddr, writevalue>>)>>
            /\ \A j \in DOMAIN calls : j > i => calls[j].call = "close"

C2_Witness ==
    /\ pc = "returned"
    /\ writeaddr = 0
    /\ writevalue = 255
    /\ \E i \in DOMAIN calls : calls[i].fn = "ft5x06_i2c_write" /\ calls[i].res >= 0

\* ---------------------------------------------------------------------- C3
\* C3: with open and bind succeeding, every write address and value in
\* 0..255 (0 included) given without a read address is accepted - no
\* rejection is logged and exactly one write of [a, v] is submitted - and
\* every read address in 0..255 given alone is accepted and forwarded as is.
C3_NoSemanticValidation ==
    (pc = "exited" /\ OpenOk /\ BindOk) =>
        /\ (readaddr = -1 /\ InByte(writeaddr) /\ InByte(writevalue)) =>
            /\ Rejections = <<>>
            /\ TxCount = 1
            /\ Rdwr[1].msgs[1].buf = <<writeaddr, writevalue>>
        /\ (InByte(readaddr) /\ writeaddr = -1 /\ writevalue = -1) =>
            /\ Rejections = <<>>
            /\ TxCount = 1
            /\ Rdwr[1].msgs[1].buf = <<readaddr>>

\* ---------------------------------------------------------------------- C4
\* C4: when both a read address and a write address are given, no bus
\* operation is ever submitted, and once open and bind have succeeded the
\* rejection is logged, the handle is released and the exit status is 0.
C4_BothRejected ==
    (InByte(readaddr) /\ InByte(writeaddr) /\ pc # "parse") =>
        /\ TxCount = 0
        /\ Validated =>
            /\ pc # "operate"
            /\ Len(Rejections) = 1
            /\ Rejections[1].fmt = "Received both read and write"
        /\ (pc = "exited" /\ BindOk) => (CloseCount = 1 /\ status = 0)

C4_Witness ==
    /\ pc = "exited"
    /\ readaddr = 0
    /\ writeaddr = 134
    /\ writevalue = 255
    /\ Len(Rejections) = 1
    /\ CloseCount = 1

\* ---------------------------------------------------------------------- C5
\* C5: a write address without a value, or a value without a write address,
\* with or without a read address, never leads to a bus operation, and once
\* open and bind have succeeded exactly one rejection is logged.
IncompleteWrite ==
    \/ InByte(writeaddr) /\ writevalue = -1
    \/ writeaddr = -1 /\ InByte(writevalue)

C5_IncompleteWriteRejected ==
    (IncompleteWrite /\ (readaddr = -1 \/ InByte(readaddr)) /\ pc # "parse") =>
        /\ TxCount = 0
        /\ Validated =>
            /\ pc # "operate"
            /\ Len(Rejections) = 1
            /\ Rejections[1].fmt =
                 IF InByte(readaddr) /\ InByte(writeaddr) THEN "Received both read and write"
                 ELSE IF writeaddr = -1 THEN "Didn't receive write address"
                 ELSE "Didn't receive write value"

C5_Witness ==
    /\ pc = "exited"
    /\ readaddr = -1
    /\ writeaddr = 134
    /\ writevalue = -1
    /\ Len(Rejections) = 1
    /\ CloseCount = 1

\* ---------------------------------------------------------------------- C6
\* C6: the handle is never released twice, the handle released is the one
\* open returned, and when open and bind have succeeded it has been released
\* exactly once by the time the process has exited, on every path.
C6_ReleasedExactlyOnce ==
    /\ CloseCount <= 1
    /\ \A i \in DOMAIN calls : calls[i].call = "close" => calls[i].arg = calls[1].res
    /\ (pc = "exited" /\ OpenOk /\ BindOk) => CloseCount = 1

C6_Witness ==
    /\ pc = "exited"
    /\ CloseCount = 1
    /\ \E i \in DOMAIN calls : calls[i].call = "rdwr" /\ calls[i].res < 0

\* ---------------------------------------------------------------------- C7
\* C7: whenever open has succeeded the handle has been released by the time
\* the process has exited, also when the bind failed.
C7_ReleasedOnBindFailure ==
    (pc = "exited" /\ OpenOk) => CloseCount = 1

\* ---------------------------------------------------------------------- C8
\* C8: for a run that got past argument parsing, the exit status is nonzero
\* exactly when open or bind failed, and then no bus operation was
\* submitted; a failed transfer leaves the status 0.
C8_ExitStatus ==
    (pc = "exited" /\ calls # <<>>) =>
        /\ status # 0 <=> (OpenFailed \/ BindFailed)
        /\ status # 0 => TxCount = 0

C8_Witness ==
    /\ pc = "exited"
    /\ status = 0
    /\ \E i \in DOMAIN calls : calls[i].call = "rdwr" /\ calls[i].res < 0

\* ---------------------------------------------------------------------- C9
\* C9: at most one bus operation is submitted per invocation; a failed one
\* is not retried.
C9_AtMostOneTransaction == TxCount <= 1

C9_Witness ==
    /\ pc = "exited"
    /\ TxCount = 1
    /\ Rdwr[1].res < 0
    /\ Rdwr[1].fn = "ft5x06_i2c_write"

\* --------------------------------------------------------------------- C10
\* C10: a bus operation comes after a successful open and a successful bind
\* of the same handle and before its release; bind and the validation come
\* after a successful open; after the release nothing more is called on the
\* device or logged; after a failed open nothing else happens at all.
C10_OrderInv ==
    /\ \A i \in DOMAIN calls :
        /\ calls[i].call = "open" => i = 1
        /\ calls[i].call \in {"bind", "rdwr", "close"} => (i > 1 /\ calls[1].res >= 0)
        /\ calls[i].call = "rdwr" =>
            /\ \E j \in 1..(i - 1) : calls[j].call = "bind" /\ calls[j].res = 0
            /\ calls[i].arg = calls[1].res
            /\ \A j \in 1..(i - 1) : calls[j].call # "close"
        /\ calls[i].call = "close" => i = Len(calls)
    /\ Rejections # <<>> => (OpenOk /\ BindOk)
    /\ OpenFailed => (Len(calls) = 1 /\ Rejections = <<>> /\ pc = "exited")

C10_Order ==
    /\ []C10_OrderInv
    /\ [][Released => (calls' = calls /\ log' = log)]_vars

C10_Witness ==
    /\ pc = "exited"
    /\ Len(calls) = 4
    /\ calls[3].call = "rdwr"
    /\ calls[4].call = "close"

====
